---- MODULE Spec2Model ----
(***************************************************************************)
(* ESP32 GPIO support code (esp-hal/src/soc/esp32/gpio.rs): IO-mux         *)
(* register resolution, RTC/analog mode switching, the pull-resistor       *)
(* erratum workaround, touch channel configuration and interrupt status.   *)
(*                                                                         *)
(* Hardware registers are the state.  A register is a function from its    *)
(* fields to their values; a field of the RTC_IO pad registers is keyed    *)
(* <<prefix, name>>, as the macros paste the row's prefix in front of the  *)
(* field name.  Bitmaps are sets of the positions of their set bits.       *)
(* `modify` reads a register, applies the closure to what it read and      *)
(* writes the result; `write` applies the closure to the reset value.      *)
(***************************************************************************)
EXTENDS Naturals, Sequences, FiniteSets, TLC

VARIABLES
    self,      \* GPIO number of the pin object the calls are made on
    cpu,       \* Cpu::current()
    hw,        \* the hardware registers, a record:
               \*   rtcio_enable      RTC_IO.enable: RTC channels with output enabled
               \*   rtcio_pin         RTC_IO.pin(n).pad_driver, n in 0..17
               \*   rtcio_pad         RTC_IO pad registers: register -> field -> value
               \*   hold_force        LPWR.hold_force: hold field -> bit
               \*   gpio_pin          GPIO.pin(n): [pad_driver, int_ena], n in 0..39
               \*   sens_thres        SENS.sar_touch_thresN: register -> channel -> threshold
               \*   sens_out          SENS.sar_touch_outN: register -> channel -> measurement
               \*   touch_pad_worken  SENS.sar_touch_enable.touch_pad_worken: channels
               \*   gpio_status       GPIO.status / GPIO.status1, by bank
    last,      \* the last call made: [op, args]
    repeated,  \* whether the last call repeats the call before it, arguments included
    hold_req,  \* what the last rtcio_pad_hold on self asked for
    ret,       \* what the last call returned: <<kind, value>>
    pc,        \* where the call in progress stands: "idle", "read" or "write"
    rd,        \* the register value the `modify` in progress read
    writes,    \* the register values the `modify` in progress has yet to write
    seen,      \* what another context last read of the pin's pad fields
    old,       \* the pin's pad fields when the call in progress began
    isr        \* the interrupt handler: the pin it owns, its last call, and
               \* where the interrupted call stood: [pin, op, args, at]

irq == <<pc, rd, writes, seen, old, isr>>
vars == <<self, cpu, hw, last, repeated, hold_req, ret, pc, rd, writes, seen, old, isr>>

(***************************************************************************)
(* Bounds of the model.                                                    *)
(***************************************************************************)
MaxThreshold == 2
MaxStatus == 1

(***************************************************************************)
(* The tables.                                                             *)
(***************************************************************************)
\* rtcio_analog! { (pin_num, rtc_pin, pin_reg, prefix, hold [, rue]) ... }
RtcRow(p, n, r, x, h, u) ==
    [pin |-> p, rtc |-> n, reg |-> r, prefix |-> x, hold |-> h, rue |-> u]

\* a table in which GPIO37 names the fields of GPIO36
RtcTableShared == <<
    RtcRow(36, 0,  "sensor_pads",  "sense1_", "sense1",     FALSE),
    RtcRow(37, 1,  "sensor_pads",  "sense1_", "sense2",     FALSE),
    RtcRow(38, 2,  "sensor_pads",  "sense3_", "sense3",     FALSE),
    RtcRow(39, 3,  "sensor_pads",  "sense4_", "sense4",     FALSE),
    RtcRow(34, 4,  "adc_pad",      "adc1_",   "adc1",       FALSE),
    RtcRow(35, 5,  "adc_pad",      "adc2_",   "adc2",       FALSE),
    RtcRow(25, 6,  "pad_dac1",     "",        "pdac1",      TRUE),
    RtcRow(26, 7,  "pad_dac2",     "",        "pdac2",      TRUE),
    RtcRow(33, 8,  "xtal_32k_pad", "x32n_",   "x32n",       TRUE),
    RtcRow(32, 9,  "xtal_32k_pad", "x32p_",   "x32p",       TRUE),
    RtcRow(4,  10, "touch_pad0",   "",        "touch_pad0", TRUE),
    RtcRow(0,  11, "touch_pad1",   "",        "touch_pad1", TRUE),
    RtcRow(2,  12, "touch_pad2",   "",        "touch_pad2", TRUE),
    RtcRow(15, 13, "touch_pad3",   "",        "touch_pad3", TRUE),
    RtcRow(13, 14, "touch_pad4",   "",        "touch_pad4", TRUE),
    RtcRow(12, 15, "touch_pad5",   "",        "touch_pad5", TRUE),
    RtcRow(14, 16, "touch_pad6",   "",        "touch_pad6", TRUE),
    RtcRow(27, 17, "touch_pad7",   "",        "touch_pad7", TRUE) >>

RtcTable == <<
    RtcRow(36, 0,  "sensor_pads",  "sense1_", "sense1",     FALSE),
    RtcRow(37, 1,  "sensor_pads",  "sense2_", "sense2",     FALSE),
    RtcRow(38, 2,  "sensor_pads",  "sense3_", "sense3",     FALSE),
    RtcRow(39, 3,  "sensor_pads",  "sense4_", "sense4",     FALSE),
    RtcRow(34, 4,  "adc_pad",      "adc1_",   "adc1",       FALSE),
    RtcRow(35, 5,  "adc_pad",      "adc2_",   "adc2",       FALSE),
    RtcRow(25, 6,  "pad_dac1",     "",        "pdac1",      TRUE),
    RtcRow(26, 7,  "pad_dac2",     "",        "pdac2",      TRUE),
    RtcRow(33, 8,  "xtal_32k_pad", "x32n_",   "x32n",       TRUE),
    RtcRow(32, 9,  "xtal_32k_pad", "x32p_",   "x32p",       TRUE),
    RtcRow(4,  10, "touch_pad0",   "",        "touch_pad0", TRUE),
    RtcRow(0,  11, "touch_pad1",   "",        "touch_pad1", TRUE),
    RtcRow(2,  12, "touch_pad2",   "",        "touch_pad2", TRUE),
    RtcRow(15, 13, "touch_pad3",   "",        "touch_pad3", TRUE),
    RtcRow(13, 14, "touch_pad4",   "",        "touch_pad4", TRUE),
    RtcRow(12, 15, "touch_pad5",   "",        "touch_pad5", TRUE),
    RtcRow(14, 16, "touch_pad6",   "",        "touch_pad6", TRUE),
    RtcRow(27, 17, "touch_pad7",   "",        "touch_pad7", TRUE) >>

\* touch! { (touch_nr, pin_nr, touch_out_reg, touch_thres_reg, normal_pin) ... }
TouchRow(t, p, o, th, n) ==
    [touch |-> t, pin |-> p, out_reg |-> o, thres_reg |-> th, normal |-> n]

TouchTable == <<
    TouchRow(0, 4,  "sar_touch_out1", "sar_touch_thres1", TRUE),
    TouchRow(1, 0,  "sar_touch_out1", "sar_touch_thres1", TRUE),
    TouchRow(2, 2,  "sar_touch_out2", "sar_touch_thres2", TRUE),
    TouchRow(3, 15, "sar_touch_out2", "sar_touch_thres2", TRUE),
    TouchRow(4, 13, "sar_touch_out3", "sar_touch_thres3", TRUE),
    TouchRow(5, 12, "sar_touch_out3", "sar_touch_thres3", TRUE),
    TouchRow(6, 14, "sar_touch_out4", "sar_touch_thres4", TRUE),
    TouchRow(7, 27, "sar_touch_out4", "sar_touch_thres4", TRUE),
    TouchRow(8, 33, "sar_touch_out5", "sar_touch_thres5", FALSE),
    TouchRow(9, 32, "sar_touch_out5", "sar_touch_thres5", FALSE) >>

\* paste's [< touch_pad $touch_num >]
TouchPadReg(t) ==
    << "touch_pad0", "touch_pad1", "touch_pad2", "touch_pad3", "touch_pad4",
       "touch_pad5", "touch_pad6", "touch_pad7", "touch_pad8", "touch_pad9" >>[t + 1]

RtcRows == {RtcTable[i] : i \in DOMAIN RtcTable}
TouchRows == {TouchTable[i] : i \in DOMAIN TouchTable}
RtcPins == {row.pin : row \in RtcRows}
TouchPins == {row.pin : row \in TouchRows}
RtcOf(p) == CHOOSE row \in RtcRows : row.pin = p
TouchOf(p) == CHOOSE row \in TouchRows : row.pin = p
\* fn rtc_number(&self) -> u8 { $rtc_pin }
rtc_number(p) == RtcOf(p).rtc
\* fn touch_nr(&self) -> u8 { $touch_num }
touch_nr(p) == TouchOf(p).touch

(***************************************************************************)
(* Register layout, as the field accessors the macros name.                *)
(***************************************************************************)
ModeFields == {"fun_ie", "mux_sel", "fun_sel"}
PullFields == {"rue", "rde"}
TouchFields == {"xpd", "tie_opt"}
TouchPadRegs == {TouchPadReg(row.touch) : row \in TouchRows}
PadRegs == {row.reg : row \in RtcRows} \cup TouchPadRegs
HoldFields == {row.hold : row \in RtcRows}
ThresRegs == {row.thres_reg : row \in TouchRows}
OutRegs == {row.out_reg : row \in TouchRows}
RtcChannels == {row.rtc : row \in RtcRows}
GpioPinRegs == 0..39
Banks == {"Bank0", "Bank1"}

PinKeys(row) ==
    {<<row.prefix, f>> : f \in ModeFields \cup (IF row.rue THEN PullFields ELSE {})}
Layout(reg) ==
    UNION {PinKeys(row) : row \in {r \in RtcRows : r.reg = reg}}
    \cup (IF reg \in TouchPadRegs THEN {<<"", f>> : f \in TouchFields} ELSE {})
FieldMax(f) == IF f = "fun_sel" THEN 3 ELSE 1
ThresFields(reg) == {row.touch : row \in {r \in TouchRows : r.thres_reg = reg}}
OutFields(reg) == {row.touch : row \in {r \in TouchRows : r.out_reg = reg}}

GetF(r, prefix, f) == r[<<prefix, f>>]
SetF(r, prefix, f, v) == [r EXCEPT ![<<prefix, f>>] = v]
\* `.bit(b)` of a one-bit field
BitOf(b) == IF b THEN 1 ELSE 0
\* 1 << n, as a bitmap
Shl1(n) == {n}

(***************************************************************************)
(* The register contents the calls start from.  Everything this file       *)
(* leaves to its callers is free: the fields of the pin the calls are made *)
(* on take any value (own), every other field is uniformly clear or set    *)
(* (bg), so that a call that clears or sets somebody else's field shows.   *)
(***************************************************************************)
OwnBitKeys ==
    (ModeFields \ {"fun_sel"}) \cup PullFields \cup TouchFields
    \cup {"oe", "od", "hold", "pad_driver", "worken"}
Fill(bg, f) == bg * FieldMax(f)
OwnsKey(p, reg, k) ==
    \/ p \in RtcPins /\ RtcOf(p).reg = reg /\ k \in PinKeys(RtcOf(p))
    \/ p \in TouchPins /\ TouchPadReg(touch_nr(p)) = reg /\ k[1] = "" /\ k[2] \in TouchFields

InitHw(p, bg, own, st) ==
    [rtcio_enable |->
        {n \in RtcChannels :
            IF p \in RtcPins /\ rtc_number(p) = n THEN own["oe"] = 1 ELSE bg = 1},
     rtcio_pin |->
        [n \in RtcChannels |->
            IF p \in RtcPins /\ rtc_number(p) = n THEN own["od"] ELSE bg],
     rtcio_pad |->
        [reg \in PadRegs |->
            [k \in Layout(reg) |->
                IF OwnsKey(p, reg, k) THEN own[k[2]] ELSE Fill(bg, k[2])]],
     hold_force |->
        [h \in HoldFields |->
            IF p \in RtcPins /\ RtcOf(p).hold = h THEN own["hold"] ELSE bg],
     gpio_pin |->
        [n \in GpioPinRegs |->
            [pad_driver |-> IF n = p THEN own["pad_driver"] ELSE bg,
             int_ena |-> bg]],
     sens_thres |->
        [reg \in ThresRegs |->
            [t \in ThresFields(reg) |->
                IF p \in TouchPins /\ touch_nr(p) = t
                THEN own["thres"] ELSE bg * MaxThreshold]],
     sens_out |->
        [reg \in OutRegs |->
            [t \in OutFields(reg) |->
                IF p \in TouchPins /\ touch_nr(p) = t
                THEN own["meas"] ELSE bg * MaxThreshold]],
     touch_pad_worken |->
        {t \in 0..9 :
            IF p \in TouchPins /\ touch_nr(p) = t THEN own["worken"] = 1 ELSE bg = 1},
     gpio_status |-> st]

\* own, from the free bits, the free function-select, threshold and
\* measurement; what is not free takes the background value
Own(bg, bits, fs, th, ms) ==
    [k \in OwnBitKeys \cup {"fun_sel", "thres", "meas"} |->
        IF k = "fun_sel" THEN fs
        ELSE IF k = "thres" THEN th
        ELSE IF k = "meas" THEN ms
        ELSE IF k \in DOMAIN bits THEN bits[k] ELSE bg]

NoRet == <<"none", 0>>
NoRead == <<>>
NoIsr == [pin |-> 0, op |-> "none", args |-> <<>>, at |-> "idle"]
IrqIdle ==
    /\ pc = "idle"
    /\ rd = NoRead
    /\ writes = <<>>
    /\ seen = NoRead
    /\ old = NoRead
    /\ isr = NoIsr

NoCall == [op |-> "none", args |-> <<>>]
Call(op, args) == [op |-> op, args |-> args]
Cpus == {"AppCpu", "ProCpu"}

(***************************************************************************)
(* RtcPin, RtcPinWithResistors and AnalogPin, one impl per table row.      *)
(* Each operation maps the registers before the call to the registers      *)
(* after it.                                                               *)
(***************************************************************************)
\* `func as u8`, as far as the two-bit fun_sel field holds it
RtcFunction == 0..FieldMax("fun_sel")

\* the closure of rtc_set_config, on the value `modify` read
rtc_set_config_w(row, r, input_enable, mux, func) ==
    SetF(SetF(SetF(r, row.prefix, "fun_ie", BitOf(input_enable)),
              row.prefix, "mux_sel", BitOf(mux)),
         row.prefix, "fun_sel", func)

\* rtc_set_config disabling the output driver first, as set_analog does
rtc_set_config_disables(p, h, input_enable, mux, func) ==
    [h EXCEPT
        !.rtcio_enable = @ \ Shl1(rtc_number(p)),
        !.rtcio_pin[rtc_number(p)] = 0,
        !.rtcio_pad[RtcOf(p).reg] =
            rtc_set_config_w(RtcOf(p), @, input_enable, mux, func)]

rtc_set_config(p, h, input_enable, mux, func) ==
    [h EXCEPT !.rtcio_pad[RtcOf(p).reg] =
        rtc_set_config_w(RtcOf(p), @, input_enable, mux, func)]

\* the closure of rtcio_pad_hold, on the value `modify` read
rtcio_pad_hold_w(row, r, enable) == [r EXCEPT ![row.hold] = BitOf(enable)]

rtcio_pad_hold(p, h, enable) ==
    [h EXCEPT !.hold_force = rtcio_pad_hold_w(RtcOf(p), @, enable)]

rtcio_pullup(p, h, enable) ==
    [h EXCEPT !.rtcio_pad[RtcOf(p).reg] =
        SetF(@, RtcOf(p).prefix, "rue", BitOf(enable))]

rtcio_pulldown(p, h, enable) ==
    [h EXCEPT !.rtcio_pad[RtcOf(p).reg] =
        SetF(@, RtcOf(p).prefix, "rde", BitOf(enable))]

\* enable_w1tc().write(bits(mask)): every enable bit written as 1 is cleared
enable_w1tc(enable, mask) == enable \ mask

\* the closure of set_analog's pad register modify
set_analog_w(row, r) ==
    LET m == SetF(SetF(SetF(r, row.prefix, "fun_ie", 0),
                       row.prefix, "mux_sel", 1),
                  row.prefix, "fun_sel", 0)
    IN  IF row.rue
        THEN SetF(SetF(m, row.prefix, "rue", 0), row.prefix, "rde", 0)
        ELSE m

\* set_analog forgetting the pull-down resistor
set_analog_keeps_rde(p, h) ==
    [h EXCEPT
        !.rtcio_enable = enable_w1tc(@, Shl1(rtc_number(p))),
        !.rtcio_pin[rtc_number(p)] = 0,
        !.rtcio_pad[RtcOf(p).reg] =
            SetF(set_analog_w(RtcOf(p), @), RtcOf(p).prefix, "rde",
                 GetF(h.rtcio_pad[RtcOf(p).reg], RtcOf(p).prefix, "rde"))]

\* set_analog freezing the pad as well
set_analog_holds(p, h) ==
    [h EXCEPT
        !.rtcio_enable = enable_w1tc(@, Shl1(rtc_number(p))),
        !.rtcio_pin[rtc_number(p)] = 0,
        !.rtcio_pad[RtcOf(p).reg] = set_analog_w(RtcOf(p), @),
        !.hold_force[RtcOf(p).hold] = 1]

\* set_analog flipping the mux-select it read instead of setting it
set_analog_toggles(p, h) ==
    [h EXCEPT
        !.rtcio_enable = enable_w1tc(@, Shl1(rtc_number(p))),
        !.rtcio_pin[rtc_number(p)] = 0,
        !.rtcio_pad[RtcOf(p).reg] =
            SetF(set_analog_w(RtcOf(p), @), RtcOf(p).prefix, "mux_sel",
                 1 - GetF(h.rtcio_pad[RtcOf(p).reg], RtcOf(p).prefix, "mux_sel"))]

set_analog(p, h) ==
    [h EXCEPT
        !.rtcio_enable = enable_w1tc(@, Shl1(rtc_number(p))),
        !.rtcio_pin[rtc_number(p)] = 0,
        !.rtcio_pad[RtcOf(p).reg] = set_analog_w(RtcOf(p), @)]

\* errata36's match on pin.number(): the rows that carry a $rue literal
has_pullups(p) ==
    IF \E row \in RtcRows : row.pin = p /\ row.rue THEN RtcOf(p).rue ELSE FALSE

\* errata36 with the two resistors swapped
errata36_swapped(p, h, pull_up, pull_down) ==
    IF has_pullups(p)
    THEN rtcio_pulldown(p, rtcio_pullup(p, h, pull_down), pull_up)
    ELSE h

errata36(p, h, pull_up, pull_down) ==
    IF has_pullups(p)
    THEN rtcio_pulldown(p, rtcio_pullup(p, h, pull_up), pull_down)
    ELSE h

Done(op, args) ==
    /\ last' = Call(op, args)
    /\ repeated' = (last = Call(op, args))
    /\ UNCHANGED irq

SetAnalog ==
    /\ self \in RtcPins
    /\ hw' = set_analog(self, hw)
    /\ Done("set_analog", <<>>)
    /\ UNCHANGED <<self, cpu, hold_req, ret>>

RtcSetConfig ==
    /\ self \in RtcPins
    /\ \E input_enable \in BOOLEAN, mux \in BOOLEAN, func \in RtcFunction :
        /\ hw' = rtc_set_config(self, hw, input_enable, mux, func)
        /\ Done("rtc_set_config", <<input_enable, mux, func>>)
    /\ UNCHANGED <<self, cpu, hold_req, ret>>

RtcioPadHold ==
    /\ self \in RtcPins
    /\ \E enable \in BOOLEAN :
        /\ hw' = rtcio_pad_hold(self, hw, enable)
        /\ hold_req' = IF enable THEN "on" ELSE "off"
        /\ Done("rtcio_pad_hold", <<enable>>)
    /\ UNCHANGED <<self, cpu, ret>>

Errata36 ==
    /\ \E pull_up \in BOOLEAN, pull_down \in BOOLEAN :
        /\ hw' = errata36(self, hw, pull_up, pull_down)
        /\ Done("errata36", <<pull_up, pull_down>>)
    /\ UNCHANGED <<self, cpu, hold_req, ret>>

\* the pins AnyPin can stand for
AnyPins == (0..27) \cup (32..39)

\* the fields of pin p that the RTC operations read or write
FreeRtcBits(p) ==
    IF p \in RtcPins
    THEN (ModeFields \ {"fun_sel"}) \cup (IF RtcOf(p).rue THEN PullFields ELSE {})
         \cup {"oe", "od", "hold"}
    ELSE {}
FreeFunSel(p, bg) == IF p \in RtcPins THEN 0..3 ELSE {Fill(bg, "fun_sel")}

Init ==
    /\ self \in AnyPins
    /\ cpu = "ProCpu"
    /\ \E bg \in 0..1 :
       \E fs \in FreeFunSel(self, bg), bits \in [FreeRtcBits(self) -> 0..1] :
          hw = InitHw(self, bg, Own(bg, bits, fs, bg * MaxThreshold, bg * MaxThreshold),
                      [b \in Banks |-> 0])
    /\ last = NoCall
    /\ repeated = FALSE
    /\ hold_req = "none"
    /\ ret = NoRet
    /\ IrqIdle

Next ==
    \/ SetAnalog
    \/ RtcSetConfig
    \/ RtcioPadHold
    \/ Errata36

Spec == Init /\ [][Next]_vars

(***************************************************************************)
(* TouchPin, one impl per row of the touch table.  `write` starts from the *)
(* register's reset value: zero for the GPIO pin and threshold registers;  *)
(* of a touch pad register every field kept here is written by the         *)
(* closure, so the reset value of none of them shows.                      *)
(***************************************************************************)
GpioPinReset == [pad_driver |-> 0, int_ena |-> 0]
PadReset(reg) == [k \in Layout(reg) |-> 0]
ThresReset(reg) == [t \in ThresFields(reg) |-> 0]

\* @pin_specific taking the second arm whatever the flag
pin_specific_shared(touch_num, normal_pin) ==
    SetF(SetF(PadReset(TouchPadReg(touch_num)), "", "xpd", 1), "", "tie_opt", 0)

\* touch!(@pin_specific $touch_num, $normal_pin): the value written to
\* RTC_IO.touch_pad$touch_num
pin_specific(touch_num, normal_pin) ==
    LET z == PadReset(TouchPadReg(touch_num)) IN
    IF normal_pin
    THEN SetF(SetF(SetF(SetF(SetF(SetF(SetF(z,
             "", "xpd", 1),
             "", "fun_ie", 0),
             "", "mux_sel", 1),
             "", "rue", 0),
             "", "rde", 0),
             "", "tie_opt", 0),
             "", "fun_sel", 0)
    ELSE SetF(SetF(z, "", "xpd", 1), "", "tie_opt", 0)

\* enabling that writes only the channel's own bit
set_touch_enables_alone(p, h) ==
    [h EXCEPT
        !.gpio_pin[rtc_number(p)] = [GpioPinReset EXCEPT !.pad_driver = 0],
        !.rtcio_enable = enable_w1tc(@, Shl1(rtc_number(p))),
        !.sens_thres[TouchOf(p).thres_reg] =
            [ThresReset(TouchOf(p).thres_reg) EXCEPT ![TouchOf(p).touch] = 0],
        !.rtcio_pad[TouchPadReg(TouchOf(p).touch)] =
            pin_specific(TouchOf(p).touch, TouchOf(p).normal),
        !.touch_pad_worken = Shl1(TouchOf(p).touch)]

set_touch(p, h) ==
    LET row == TouchOf(p) IN
    [h EXCEPT
        !.gpio_pin[rtc_number(p)] = [GpioPinReset EXCEPT !.pad_driver = 0],
        !.rtcio_enable = enable_w1tc(@, Shl1(rtc_number(p))),
        !.sens_thres[row.thres_reg] =
            [ThresReset(row.thres_reg) EXCEPT ![row.touch] = 0],
        !.rtcio_pad[TouchPadReg(row.touch)] = pin_specific(row.touch, row.normal),
        !.touch_pad_worken = @ \cup Shl1(row.touch)]

touch_measurement(p, h) == h.sens_out[TouchOf(p).out_reg][TouchOf(p).touch]

set_threshold(p, h, threshold) ==
    [h EXCEPT
        !.sens_thres[TouchOf(p).thres_reg] =
            [ThresReset(TouchOf(p).thres_reg) EXCEPT ![TouchOf(p).touch] = threshold]]

SetTouch ==
    /\ self \in TouchPins
    /\ hw' = set_touch(self, hw)
    /\ Done("set_touch", <<>>)
    /\ UNCHANGED <<self, cpu, hold_req, ret>>

TouchMeasurement ==
    /\ self \in TouchPins
    /\ ret' = <<"u16", touch_measurement(self, hw)>>
    /\ Done("touch_measurement", <<>>)
    /\ UNCHANGED <<self, cpu, hw, hold_req>>

SetThreshold ==
    /\ self \in TouchPins
    /\ \E threshold \in 0..MaxThreshold :
        /\ hw' = set_threshold(self, hw, threshold)
        /\ Done("set_threshold", <<threshold>>)
    /\ UNCHANGED <<self, cpu, hold_req, ret>>

\* the fields of pin p that the touch operations read or write
FreeTouchBits == {"fun_ie", "mux_sel", "rue", "xpd", "tie_opt", "pad_driver", "worken"}

InitTouch ==
    /\ self \in TouchPins
    /\ cpu = "ProCpu"
    /\ \E bg \in 0..1 :
       \E bits \in [FreeTouchBits -> 0..1], th \in 0..MaxThreshold :
          hw = InitHw(self, bg, Own(bg, bits, Fill(bg, "fun_sel"), th, bg * MaxThreshold),
                      [b \in Banks |-> 0])
    /\ last = NoCall
    /\ repeated = FALSE
    /\ hold_req = "none"
    /\ ret = NoRet
    /\ IrqIdle

NextTouch ==
    \/ SetTouch
    \/ TouchMeasurement
    \/ SetThreshold

SpecTouch == InitTouch /\ [][NextTouch]_vars

(***************************************************************************)
(* The free functions: io_mux_reg, gpio_intr_enable and                    *)
(* InterruptStatusRegisterAccess::interrupt_status_read.                   *)
(***************************************************************************)
U8 == 0..255

\* the match arms of io_mux_reg, <<pattern, n of the iomux.gpio<n>() returned>>,
\* with a copy-and-paste slip in the arm of 33
IoMuxArmsSlip ==
    { <<n, n>> : n \in (0..27) \cup {32} \cup (34..39) } \cup { <<33, 32>> }

\* the match arms of io_mux_reg, <<pattern, n of the iomux.gpio<n>() returned>>
IoMuxArms ==
    { <<0, 0>>, <<1, 1>>, <<2, 2>>, <<3, 3>>, <<4, 4>>, <<5, 5>>, <<6, 6>>,
      <<7, 7>>, <<8, 8>>, <<9, 9>>, <<10, 10>>, <<11, 11>>, <<12, 12>>,
      <<13, 13>>, <<14, 14>>, <<15, 15>>, <<16, 16>>, <<17, 17>>, <<18, 18>>,
      <<19, 19>>, <<20, 20>>, <<21, 21>>, <<22, 22>>, <<23, 23>>, <<24, 24>>,
      <<25, 25>>, <<26, 26>>, <<27, 27>>, <<32, 32>>, <<33, 33>>, <<34, 34>>,
      <<35, 35>>, <<36, 36>>, <<37, 37>>, <<38, 38>>, <<39, 39>> }

\* the register window returned, or the panic of the `other` arm
io_mux_reg(gpio_num) ==
    IF \E arm \in IoMuxArms : arm[1] = gpio_num
    THEN <<"window", (CHOOSE arm \in IoMuxArms : arm[1] = gpio_num)[2]>>
    ELSE <<"panic", gpio_num>>

\* u8 arithmetic, bit by bit
BitsOf(v) == {i \in 0..7 : (v \div (2 ^ i)) % 2 = 1}
RECURSIVE OfBits(_)
OfBits(S) == IF S = {} THEN 0 ELSE LET i == CHOOSE i \in S : TRUE IN 2 ^ i + OfBits(S \ {i})
Or(a, b) == OfBits(BitsOf(a) \cup BitsOf(b))
Shl(a, k) == (a * 2 ^ k) % 256

\* gpio_intr_enable with the PRO CPU's fields one bit too low
gpio_intr_enable_low(c, int_enable, nmi_enable) ==
    IF c = "AppCpu"
    THEN Or(BitOf(int_enable), Shl(BitOf(nmi_enable), 1))
    ELSE Or(Shl(BitOf(int_enable), 1), Shl(BitOf(nmi_enable), 2))

\* gpio_intr_enable, with c the value of Cpu::current()
gpio_intr_enable(c, int_enable, nmi_enable) ==
    IF c = "AppCpu"
    THEN Or(BitOf(int_enable), Shl(BitOf(nmi_enable), 1))
    ELSE Or(Shl(BitOf(int_enable), 2), Shl(BitOf(nmi_enable), 3))

\* a read that takes the low status register for either bank
interrupt_status_read_low(bank, h) == h.gpio_status["Bank0"]

interrupt_status_read(bank, h) ==
    IF bank = "Bank0" THEN h.gpio_status["Bank0"] ELSE h.gpio_status["Bank1"]

IoMuxReg ==
    /\ \E gpio_num \in U8 :
        /\ ret' = io_mux_reg(gpio_num)
        /\ Done("io_mux_reg", <<gpio_num>>)
    /\ UNCHANGED <<self, cpu, hw, hold_req>>

GpioIntrEnable ==
    /\ \E int_enable \in BOOLEAN, nmi_enable \in BOOLEAN :
        /\ ret' = <<"u8", gpio_intr_enable(cpu, int_enable, nmi_enable)>>
        /\ Done("gpio_intr_enable", <<int_enable, nmi_enable>>)
    /\ UNCHANGED <<self, cpu, hw, hold_req>>

InterruptStatusRead ==
    /\ \E bank \in Banks :
        /\ ret' = <<"u32", interrupt_status_read(bank, hw)>>
        /\ Done("interrupt_status_read", <<bank>>)
    /\ UNCHANGED <<self, cpu, hw, hold_req>>

InitQuery ==
    /\ self = 0
    /\ cpu \in Cpus
    /\ \E bg \in 0..1, st \in [Banks -> 0..MaxStatus] :
          hw = InitHw(self, bg, Own(bg, <<>>, Fill(bg, "fun_sel"), bg * MaxThreshold,
                                    bg * MaxThreshold), st)
    /\ last = NoCall
    /\ repeated = FALSE
    /\ hold_req = "none"
    /\ ret = NoRet
    /\ IrqIdle

NextQuery ==
    \/ IoMuxReg
    \/ GpioIntrEnable
    \/ InterruptStatusRead

SpecQuery == InitQuery /\ [][NextQuery]_vars

(***************************************************************************)
(* rtc_set_config step by step, with another context (the other core, an   *)
(* interrupt handler) reading the pin's pad register in between.  `modify` *)
(* is one volatile read of the register followed by one volatile write of  *)
(* the closure's result.                                                   *)
(***************************************************************************)
PadTriple(p, h) ==
    LET r == h.rtcio_pad[RtcOf(p).reg] IN
    << GetF(r, RtcOf(p).prefix, "fun_ie"),
       GetF(r, RtcOf(p).prefix, "mux_sel"),
       GetF(r, RtcOf(p).prefix, "fun_sel") >>

\* one register write per field
rtc_set_config_fieldwise(row, r, input_enable, mux, func) ==
    << SetF(r, row.prefix, "fun_ie", BitOf(input_enable)),
       SetF(SetF(r, row.prefix, "fun_ie", BitOf(input_enable)),
            row.prefix, "mux_sel", BitOf(mux)),
       rtc_set_config_w(row, r, input_enable, mux, func) >>

\* the values rtc_set_config writes to the pad register, in order, having
\* read r: the one write of `modify`
rtc_set_config_writes(row, r, input_enable, mux, func) ==
    << rtc_set_config_w(row, r, input_enable, mux, func) >>

BeginRtcSetConfig ==
    /\ pc = "idle"
    /\ \E input_enable \in BOOLEAN, mux \in BOOLEAN, func \in RtcFunction :
        /\ last' = Call("rtc_set_config", <<input_enable, mux, func>>)
        /\ repeated' = (last = Call("rtc_set_config", <<input_enable, mux, func>>))
    /\ pc' = "read"
    /\ old' = PadTriple(self, hw)
    /\ seen' = NoRead
    /\ UNCHANGED <<self, cpu, hw, hold_req, ret, rd, writes, isr>>

ModifyRead ==
    /\ pc = "read"
    /\ rd' = hw.rtcio_pad[RtcOf(self).reg]
    /\ writes' = rtc_set_config_writes(RtcOf(self), rd', last.args[1], last.args[2],
                                       last.args[3])
    /\ pc' = "write"
    /\ UNCHANGED <<self, cpu, hw, last, repeated, hold_req, ret, seen, old, isr>>

ModifyWrite ==
    /\ pc = "write"
    /\ hw' = [hw EXCEPT !.rtcio_pad[RtcOf(self).reg] = Head(writes)]
    /\ writes' = Tail(writes)
    /\ pc' = IF Len(writes) = 1 THEN "idle" ELSE "write"
    /\ UNCHANGED <<self, cpu, last, repeated, hold_req, ret, rd, seen, old, isr>>

OtherContextRead ==
    /\ seen' = PadTriple(self, hw)
    /\ UNCHANGED <<self, cpu, hw, last, repeated, hold_req, ret, pc, rd, writes, old, isr>>

InitIrq ==
    /\ self \in RtcPins
    /\ cpu = "ProCpu"
    /\ \E bg \in 0..1 :
       \E fs \in 0..3, bits \in [{"fun_ie", "mux_sel"} -> 0..1] :
          hw = InitHw(self, bg, Own(bg, bits, fs, bg * MaxThreshold, bg * MaxThreshold),
                      [b \in Banks |-> 0])
    /\ last = NoCall
    /\ repeated = FALSE
    /\ hold_req = "none"
    /\ ret = NoRet
    /\ IrqIdle

NextIrq ==
    \/ BeginRtcSetConfig
    \/ ModifyRead
    \/ ModifyWrite
    \/ OtherContextRead

SpecIrq == InitIrq /\ [][NextIrq]_vars

(***************************************************************************)
(* rtcio_pad_hold as the processor runs it: `modify` is a read of          *)
(* LPWR.hold_force followed by a write of it, with interrupts enabled.  An *)
(* interrupt handler that owns another RTC pin calls rtcio_pad_hold on its *)
(* pin and runs to completion at whichever point the interrupt arrives.    *)
(***************************************************************************)
BeginRtcioPadHold ==
    /\ pc = "idle"
    /\ \E enable \in BOOLEAN :
        /\ last' = Call("rtcio_pad_hold", <<enable>>)
        /\ repeated' = (last = Call("rtcio_pad_hold", <<enable>>))
        /\ hold_req' = IF enable THEN "on" ELSE "off"
    /\ pc' = "read"
    /\ isr' = [isr EXCEPT !.op = "none", !.args = <<>>, !.at = "idle"]
    /\ UNCHANGED <<self, cpu, hw, ret, rd, writes, seen, old>>

HoldForceRead ==
    /\ pc = "read"
    /\ rd' = hw.hold_force
    /\ pc' = "write"
    /\ UNCHANGED <<self, cpu, hw, last, repeated, hold_req, ret, writes, seen, old, isr>>

HoldForceWrite ==
    /\ pc = "write"
    /\ hw' = [hw EXCEPT !.hold_force = rtcio_pad_hold_w(RtcOf(self), rd, last.args[1])]
    /\ pc' = "idle"
    /\ UNCHANGED <<self, cpu, last, repeated, hold_req, ret, rd, writes, seen, old, isr>>

InterruptRtcioPadHold ==
    /\ \E enable \in BOOLEAN :
        /\ hw' = rtcio_pad_hold(isr.pin, hw, enable)
        /\ isr' = [isr EXCEPT !.op = "rtcio_pad_hold", !.args = <<enable>>, !.at = pc]
    /\ UNCHANGED <<self, cpu, last, repeated, hold_req, ret, pc, rd, writes, seen, old>>

InitHold ==
    /\ self \in RtcPins
    /\ cpu = "ProCpu"
    /\ \E bg \in 0..1, bits \in [{"hold"} -> 0..1] :
          hw = InitHw(self, bg, Own(bg, bits, Fill(bg, "fun_sel"), bg * MaxThreshold,
                                    bg * MaxThreshold),
                      [b \in Banks |-> 0])
    /\ last = NoCall
    /\ repeated = FALSE
    /\ hold_req = "none"
    /\ ret = NoRet
    /\ pc = "idle"
    /\ rd = NoRead
    /\ writes = <<>>
    /\ seen = NoRead
    /\ old = NoRead
    /\ \E q \in RtcPins \ {self} : isr = [NoIsr EXCEPT !.pin = q]

NextHold ==
    \/ BeginRtcioPadHold
    \/ HoldForceRead
    \/ HoldForceWrite
    \/ InterruptRtcioPadHold

SpecHold == InitHold /\ [][NextHold]_vars

(***************************************************************************)
(* The signal catalog: the two enums, entry by entry as declared, <<name,   *)
(* discriminant>> where the source gives one and <<name>> where it does    *)
(* not, and the discriminants the compiler assigns.                        *)
(***************************************************************************)
INPUT_SIGNAL_MAX == 539
OUTPUT_SIGNAL_MAX == 548

\* pub enum InputSignal
InputSignal == <<
    <<"SPICLK", 0>>, <<"SPIQ", 1>>, <<"SPID", 2>>, <<"SPIHD", 3>>, <<"SPIWP", 4>>,
    <<"SPICS0", 5>>, <<"SPICS1", 6>>, <<"SPICS2", 7>>, <<"HSPICLK", 8>>,
    <<"HSPIQ", 9>>, <<"HSPID", 10>>, <<"HSPICS0", 11>>, <<"HSPIHD", 12>>,
    <<"HSPIWP", 13>>, <<"U0RXD", 14>>, <<"U0CTS", 15>>, <<"U0DSR", 16>>,
    <<"U1RXD", 17>>, <<"U1CTS", 18>>, <<"I2S0O_BCK", 23>>, <<"I2S1O_BCK", 24>>,
    <<"I2S0O_WS", 25>>, <<"I2S1O_WS", 26>>, <<"I2S0I_BCK", 27>>, <<"I2S0I_WS", 28>>,
    <<"I2CEXT0_SCL", 29>>, <<"I2CEXT0_SDA", 30>>, <<"PWM0_SYNC0", 31>>,
    <<"PWM0_SYNC1", 32>>, <<"PWM0_SYNC2", 33>>, <<"PWM0_F0", 34>>, <<"PWM0_F1", 35>>,
    <<"PWM0_F2", 36>>, <<"PCNT0_SIG_CH0", 39>>, <<"PCNT0_SIG_CH1", 40>>,
    <<"PCNT0_CTRL_CH0", 41>>, <<"PCNT0_CTRL_CH1", 42>>, <<"PCNT1_SIG_CH0", 43>>,
    <<"PCNT1_SIG_CH1", 44>>, <<"PCNT1_CTRL_CH0", 45>>, <<"PCNT1_CTRL_CH1", 46>>,
    <<"PCNT2_SIG_CH0", 47>>, <<"PCNT2_SIG_CH1", 48>>, <<"PCNT2_CTRL_CH0", 49>>,
    <<"PCNT2_CTRL_CH1", 50>>, <<"PCNT3_SIG_CH0", 51>>, <<"PCNT3_SIG_CH1", 52>>,
    <<"PCNT3_CTRL_CH0", 53>>, <<"PCNT3_CTRL_CH1", 54>>, <<"PCNT4_SIG_CH0", 55>>,
    <<"PCNT4_SIG_CH1", 56>>, <<"PCNT4_CTRL_CH0", 57>>, <<"PCNT4_CTRL_CH1", 58>>,
    <<"HSPICS1", 61>>, <<"HSPICS2", 62>>, <<"VSPICLK", 63>>, <<"VSPIQ", 64>>,
    <<"VSPID", 65>>, <<"VSPIHD", 66>>, <<"VSPIWP", 67>>, <<"VSPICS0", 68>>,
    <<"VSPICS1", 69>>, <<"VSPICS2", 70>>, <<"PCNT5_SIG_CH0", 71>>,
    <<"PCNT5_SIG_CH1", 72>>, <<"PCNT5_CTRL_CH0", 73>>, <<"PCNT5_CTRL_CH1", 74>>,
    <<"PCNT6_SIG_CH0", 75>>, <<"PCNT6_SIG_CH1", 76>>, <<"PCNT6_CTRL_CH0", 77>>,
    <<"PCNT6_CTRL_CH1", 78>>, <<"PCNT7_SIG_CH0", 79>>, <<"PCNT7_SIG_CH1", 80>>,
    <<"PCNT7_CTRL_CH0", 81>>, <<"PCNT7_CTRL_CH1", 82>>, <<"RMT_SIG_0", 83>>,
    <<"RMT_SIG_1", 84>>, <<"RMT_SIG_2", 85>>, <<"RMT_SIG_3", 86>>, <<"RMT_SIG_4", 87>>,
    <<"RMT_SIG_5", 88>>, <<"RMT_SIG_6", 89>>, <<"RMT_SIG_7", 90>>, <<"TWAI_RX", 94>>,
    <<"I2CEXT1_SCL", 95>>, <<"I2CEXT1_SDA", 96>>, <<"HOST_CARD_DETECT_N_1", 97>>,
    <<"HOST_CARD_DETECT_N_2", 98>>, <<"HOST_CARD_WRITE_PRT_1", 99>>,
    <<"HOST_CARD_WRITE_PRT_2", 100>>, <<"HOST_CARD_INT_N_1", 101>>,
    <<"HOST_CARD_INT_N_2", 102>>, <<"PWM1_SYNC0", 103>>, <<"PWM1_SYNC1", 104>>,
    <<"PWM1_SYNC2", 105>>, <<"PWM1_F0", 106>>, <<"PWM1_F1", 107>>, <<"PWM1_F2", 108>>,
    <<"PWM0_CAP0", 109>>, <<"PWM0_CAP1", 110>>, <<"PWM0_CAP2", 111>>,
    <<"PWM1_CAP0", 112>>, <<"PWM1_CAP1", 113>>, <<"PWM1_CAP2", 114>>,
    <<"I2S0I_DATA_0", 140>>, <<"I2S0I_DATA_1", 141>>, <<"I2S0I_DATA_2", 142>>,
    <<"I2S0I_DATA_3", 143>>, <<"I2S0I_DATA_4", 144>>, <<"I2S0I_DATA_5", 145>>,
    <<"I2S0I_DATA_6", 146>>, <<"I2S0I_DATA_7", 147>>, <<"I2S0I_DATA_8", 148>>,
    <<"I2S0I_DATA_9", 149>>, <<"I2S0I_DATA_10", 150>>, <<"I2S0I_DATA_11", 151>>,
    <<"I2S0I_DATA_12", 152>>, <<"I2S0I_DATA_13", 153>>, <<"I2S0I_DATA_14", 154>>,
    <<"I2S0I_DATA_15", 155>>, <<"I2S1I_BCK", 164>>, <<"I2S1I_WS", 165>>,
    <<"I2S1I_DATA_0", 166>>, <<"I2S1I_DATA_1", 167>>, <<"I2S1I_DATA_2", 168>>,
    <<"I2S1I_DATA_3", 169>>, <<"I2S1I_DATA_4", 170>>, <<"I2S1I_DATA_5", 171>>,
    <<"I2S1I_DATA_6", 172>>, <<"I2S1I_DATA_7", 173>>, <<"I2S1I_DATA_8", 174>>,
    <<"I2S1I_DATA_9", 175>>, <<"I2S1I_DATA_10", 176>>, <<"I2S1I_DATA_11", 177>>,
    <<"I2S1I_DATA_12", 178>>, <<"I2S1I_DATA_13", 179>>, <<"I2S1I_DATA_14", 180>>,
    <<"I2S1I_DATA_15", 181>>, <<"I2S0I_H_SYNC", 190>>, <<"I2S0I_V_SYNC", 191>>,
    <<"I2S0I_H_ENABLE", 192>>, <<"I2S1I_H_SYNC", 193>>, <<"I2S1I_V_SYNC", 194>>,
    <<"I2S1I_H_ENABLE", 195>>, <<"U2RXD", 198>>, <<"U2CTS", 199>>, <<"EMAC_MDC", 200>>,
    <<"EMAC_MDI", 201>>, <<"EMAC_CRS", 202>>, <<"EMAC_COL", 203>>, <<"PCMFSYNC", 204>>,
    <<"PCMCLK", 205>>, <<"PCMDIN", 206>>, <<"SD_DATA0", 512>>, <<"SD_DATA1">>,
    <<"SD_DATA2">>, <<"SD_DATA3">>, <<"HS1_DATA0">>, <<"HS1_DATA1">>, <<"HS1_DATA2">>,
    <<"HS1_DATA3">>, <<"HS1_DATA4">>, <<"HS1_DATA5">>, <<"HS1_DATA6">>,
    <<"HS1_DATA7">>, <<"HS2_DATA0">>, <<"HS2_DATA1">>, <<"HS2_DATA2">>,
    <<"HS2_DATA3">>, <<"EMAC_TX_CLK">>, <<"EMAC_RXD2">>, <<"EMAC_TX_ER">>,
    <<"EMAC_RX_CLK">>, <<"EMAC_RX_ER">>, <<"EMAC_RXD3">>, <<"EMAC_RXD0">>,
    <<"EMAC_RXD1">>, <<"EMAC_RX_DV">>, <<"MTDI">>, <<"MTCK">>, <<"MTMS">> >>

\* pub enum OutputSignal
OutputSignal == <<
    <<"SPICLK", 0>>, <<"SPIQ", 1>>, <<"SPID", 2>>, <<"SPIHD", 3>>, <<"SPIWP", 4>>,
    <<"SPICS0", 5>>, <<"SPICS1", 6>>, <<"SPICS2", 7>>, <<"HSPICLK", 8>>,
    <<"HSPIQ", 9>>, <<"HSPID", 10>>, <<"HSPICS0", 11>>, <<"HSPIHD", 12>>,
    <<"HSPIWP", 13>>, <<"U0TXD", 14>>, <<"U0RTS", 15>>, <<"U0DTR", 16>>,
    <<"U1TXD", 17>>, <<"U1RTS", 18>>, <<"I2S0O_BCK", 23>>, <<"I2S1O_BCK", 24>>,
    <<"I2S0O_WS", 25>>, <<"I2S1O_WS", 26>>, <<"I2S0I_BCK", 27>>, <<"I2S0I_WS", 28>>,
    <<"I2CEXT0_SCL", 29>>, <<"I2CEXT0_SDA", 30>>, <<"SDIO_TOHOSTT", 31>>,
    <<"PWM0_0A", 32>>, <<"PWM0_0B", 33>>, <<"PWM0_1A", 34>>, <<"PWM0_1B", 35>>,
    <<"PWM0_2A", 36>>, <<"PWM0_2B", 37>>, <<"HSPICS1", 61>>, <<"HSPICS2", 62>>,
    <<"VSPICLK", 63>>, <<"VSPIQ", 64>>, <<"VSPID", 65>>, <<"VSPIHD", 66>>,
    <<"VSPIWP", 67>>, <<"VSPICS0", 68>>, <<"VSPICS1", 69>>, <<"VSPICS2", 70>>,
    <<"LEDC_HS_SIG0", 71>>, <<"LEDC_HS_SIG1", 72>>, <<"LEDC_HS_SIG2", 73>>,
    <<"LEDC_HS_SIG3", 74>>, <<"LEDC_HS_SIG4", 75>>, <<"LEDC_HS_SIG5", 76>>,
    <<"LEDC_HS_SIG6", 77>>, <<"LEDC_HS_SIG7", 78>>, <<"LEDC_LS_SIG0", 79>>,
    <<"LEDC_LS_SIG1", 80>>, <<"LEDC_LS_SIG2", 81>>, <<"LEDC_LS_SIG3", 82>>,
    <<"LEDC_LS_SIG4", 83>>, <<"LEDC_LS_SIG5", 84>>, <<"LEDC_LS_SIG6", 85>>,
    <<"LEDC_LS_SIG7", 86>>, <<"RMT_SIG_0", 87>>, <<"RMT_SIG_1", 88>>,
    <<"RMT_SIG_2", 89>>, <<"RMT_SIG_3", 90>>, <<"RMT_SIG_4", 91>>, <<"RMT_SIG_5", 92>>,
    <<"RMT_SIG_6", 93>>, <<"RMT_SIG_7", 94>>, <<"I2CEXT1_SCL", 95>>,
    <<"I2CEXT1_SDA", 96>>, <<"HOST_CCMD_OD_PULLUP_EN_N", 97>>, <<"HOST_RST_N_1", 98>>,
    <<"HOST_RST_N_2", 99>>, <<"GPIO_SD0", 100>>, <<"GPIO_SD1", 101>>,
    <<"GPIO_SD2", 102>>, <<"GPIO_SD3", 103>>, <<"GPIO_SD4", 104>>, <<"GPIO_SD5", 105>>,
    <<"GPIO_SD6", 106>>, <<"GPIO_SD7", 107>>, <<"PWM1_0A", 108>>, <<"PWM1_0B", 109>>,
    <<"PWM1_1A", 110>>, <<"PWM1_1B", 111>>, <<"PWM1_2A", 112>>, <<"PWM1_2B", 113>>,
    <<"TWAI_TX", 123>>, <<"TWAI_BUS_OFF_ON", 124>>, <<"TWAI_CLKOUT", 125>>,
    <<"I2S0O_DATA_0", 140>>, <<"I2S0O_DATA_1", 141>>, <<"I2S0O_DATA_2", 142>>,
    <<"I2S0O_DATA_3", 143>>, <<"I2S0O_DATA_4", 144>>, <<"I2S0O_DATA_5", 145>>,
    <<"I2S0O_DATA_6", 146>>, <<"I2S0O_DATA_7", 147>>, <<"I2S0O_DATA_8", 148>>,
    <<"I2S0O_DATA_9", 149>>, <<"I2S0O_DATA_10", 150>>, <<"I2S0O_DATA_11", 151>>,
    <<"I2S0O_DATA_12", 152>>, <<"I2S0O_DATA_13", 153>>, <<"I2S0O_DATA_14", 154>>,
    <<"I2S0O_DATA_15", 155>>, <<"I2S0O_DATA_16", 156>>, <<"I2S0O_DATA_17", 157>>,
    <<"I2S0O_DATA_18", 158>>, <<"I2S0O_DATA_19", 159>>, <<"I2S0O_DATA_20", 160>>,
    <<"I2S0O_DATA_21", 161>>, <<"I2S0O_DATA_22", 162>>, <<"I2S0O_DATA_23", 163>>,
    <<"I2S1I_BCK", 164>>, <<"I2S1I_WS", 165>>, <<"I2S1O_DATA_0", 166>>,
    <<"I2S1O_DATA_1", 167>>, <<"I2S1O_DATA_2", 168>>, <<"I2S1O_DATA_3", 169>>,
    <<"I2S1O_DATA_4", 170>>, <<"I2S1O_DATA_5", 171>>, <<"I2S1O_DATA_6", 172>>,
    <<"I2S1O_DATA_7", 173>>, <<"I2S1O_DATA_8", 174>>, <<"I2S1O_DATA_9", 175>>,
    <<"I2S1O_DATA_10", 176>>, <<"I2S1O_DATA_11", 177>>, <<"I2S1O_DATA_12", 178>>,
    <<"I2S1O_DATA_13", 179>>, <<"I2S1O_DATA_14", 180>>, <<"I2S1O_DATA_15", 181>>,
    <<"I2S1O_DATA_16", 182>>, <<"I2S1O_DATA_17", 183>>, <<"I2S1O_DATA_18", 184>>,
    <<"I2S1O_DATA_19", 185>>, <<"I2S1O_DATA_20", 186>>, <<"I2S1O_DATA_21", 187>>,
    <<"I2S1O_DATA_22", 188>>, <<"I2S1O_DATA_23", 189>>, <<"U2TXD", 198>>,
    <<"U2RTS", 199>>, <<"EMAC_MDC", 200>>, <<"EMAC_MDO", 201>>, <<"EMAC_CRS", 202>>,
    <<"EMAC_COL", 203>>, <<"BT_AUDIO0RQ", 204>>, <<"BT_AUDIO1RQ", 205>>,
    <<"BT_AUDIO2RQ", 206>>, <<"BLE_AUDIO0RQ", 207>>, <<"BLE_AUDIO1RQ", 208>>,
    <<"BLE_AUDIO2RQ", 209>>, <<"PCMFSYNC", 210>>, <<"PCMCLK", 211>>,
    <<"PCMDOUT", 212>>, <<"BLE_AUDIO_SYNC0_P", 213>>, <<"BLE_AUDIO_SYNC1_P", 214>>,
    <<"BLE_AUDIO_SYNC2_P", 215>>, <<"ANT_SEL0", 216>>, <<"ANT_SEL1", 217>>,
    <<"ANT_SEL2", 218>>, <<"ANT_SEL3", 219>>, <<"ANT_SEL4", 220>>, <<"ANT_SEL5", 221>>,
    <<"ANT_SEL6", 222>>, <<"ANT_SEL7", 223>>, <<"SIGNAL_224", 224>>,
    <<"SIGNAL_225", 225>>, <<"SIGNAL_226", 226>>, <<"SIGNAL_227", 227>>,
    <<"SIGNAL_228", 228>>, <<"GPIO", 256>>, <<"CLK_OUT1", 512>>, <<"CLK_OUT2">>,
    <<"CLK_OUT3">>, <<"SD_CLK">>, <<"SD_CMD">>, <<"SD_DATA0">>, <<"SD_DATA1">>,
    <<"SD_DATA2">>, <<"SD_DATA3">>, <<"HS1_CLK">>, <<"HS1_CMD">>, <<"HS1_DATA0">>,
    <<"HS1_DATA1">>, <<"HS1_DATA2">>, <<"HS1_DATA3">>, <<"HS1_DATA4">>,
    <<"HS1_DATA5">>, <<"HS1_DATA6">>, <<"HS1_DATA7">>, <<"HS1_STROBE">>, <<"HS2_CLK">>,
    <<"HS2_CMD">>, <<"HS2_DATA0">>, <<"HS2_DATA1">>, <<"HS2_DATA2">>, <<"HS2_DATA3">>,
    <<"EMAC_TX_CLK">>, <<"EMAC_TX_ER">>, <<"EMAC_TXD3">>, <<"EMAC_RX_ER">>,
    <<"EMAC_TXD2">>, <<"EMAC_CLK_OUT">>, <<"EMAC_CLK_180">>, <<"EMAC_TXD0">>,
    <<"EMAC_TX_EN">>, <<"EMAC_TXD1">>, <<"MTDO">> >>

\* an implicit discriminant that skips a value
NextDiscriminantSkips(prev) == prev + 2

\* an entry without `= n` takes the discriminant of the entry before it plus one
NextDiscriminant(prev) == prev + 1

RECURSIVE DiscriminantAt(_, _)
DiscriminantAt(enum, i) ==
    IF Len(enum[i]) = 2 THEN enum[i][2]
    ELSE IF i = 1 THEN 0
    ELSE NextDiscriminant(DiscriminantAt(enum, i - 1))

InputSignalCodes == [i \in DOMAIN InputSignal |-> DiscriminantAt(InputSignal, i)]
OutputSignalCodes == [i \in DOMAIN OutputSignal |-> DiscriminantAt(OutputSignal, i)]

\* `signal as InputSignalType` / `signal as OutputSignalType`, both u16
as_u16(code) == code % 65536

InputSignalAs ==
    /\ \E i \in DOMAIN InputSignal :
        /\ ret' = <<"u16", as_u16(InputSignalCodes[i])>>
        /\ Done("InputSignal", <<InputSignal[i][1]>>)
    /\ UNCHANGED <<self, cpu, hw, hold_req>>

OutputSignalAs ==
    /\ \E i \in DOMAIN OutputSignal :
        /\ ret' = <<"u16", as_u16(OutputSignalCodes[i])>>
        /\ Done("OutputSignal", <<OutputSignal[i][1]>>)
    /\ UNCHANGED <<self, cpu, hw, hold_req>>

InitSignal ==
    /\ self = 0
    /\ cpu = "ProCpu"
    /\ hw = InitHw(self, 0, Own(0, <<>>, 0, 0, 0), [b \in Banks |-> 0])
    /\ last = NoCall
    /\ repeated = FALSE
    /\ hold_req = "none"
    /\ ret = NoRet
    /\ IrqIdle

NextSignal ==
    \/ InputSignalAs
    \/ OutputSignalAs

SpecSignal == InitSignal /\ [][NextSignal]_vars

(***************************************************************************)
(* Properties of RTC mode switching, checked under Spec.                   *)
(***************************************************************************)
\* the pins with RTC-domain pull resistors
ResistorPins == {0, 2, 4, 12, 13, 14, 15, 25, 26, 27, 32, 33}
\* the 18 RTC-mapped pins
MappedPins == {0, 2, 4, 12, 13, 14, 15, 25, 26, 27} \cup (32..39)

OwnPad(h, f) == GetF(h.rtcio_pad[RtcOf(self).reg], RtcOf(self).prefix, f)
OutputEnabled(h) == rtc_number(self) \in h.rtcio_enable
OpenDrain(h) == h.rtcio_pin[rtc_number(self)] = 1
Held(h) == h.hold_force[RtcOf(self).hold] = 1

\* C2: after set_analog on an RTC-mapped pin, whatever the registers held
\* before, the pin's RTC output-enable and open-drain bits are clear, fun_ie is
\* clear, mux_sel routes to RTC, fun_sel is 0 and, on a pin with pull
\* resistors, rue and rde are clear.
C2_SetAnalogPost ==
    last.op = "set_analog" =>
        /\ self \in MappedPins
        /\ ~OutputEnabled(hw)
        /\ ~OpenDrain(hw)
        /\ OwnPad(hw, "fun_ie") = 0
        /\ OwnPad(hw, "mux_sel") = 1
        /\ OwnPad(hw, "fun_sel") = 0
        /\ (self \in ResistorPins => OwnPad(hw, "rue") = 0 /\ OwnPad(hw, "rde") = 0)

\* set_analog has run on pin 33 (RTC channel 8) among pins whose fields are
\* all set: its pull-down is off, that of pin 32 in the same register is on
C2_Witness ==
    /\ last.op = "set_analog"
    /\ self = 33
    /\ OwnPad(hw, "rde") = 0
    /\ hw.rtcio_pad["xtal_32k_pad"][<<"x32p_", "rde">>] = 1
    /\ hw.rtcio_enable = RtcChannels \ {8}

\* C3, as stated: after rtc_set_config the pin's RTC output-enable and
\* open-drain bits are clear, whatever they were before.
C3_ConfigDisablesOutput ==
    last.op = "rtc_set_config" => ~OutputEnabled(hw) /\ ~OpenDrain(hw)

\* C3, amended: rtc_set_config leaves the RTC output-enable register and every
\* RTC open-drain bit as they were before the call.
C3_ConfigKeepsOutput ==
    [][last'.op = "rtc_set_config" =>
          /\ hw'.rtcio_enable = hw.rtcio_enable
          /\ hw'.rtcio_pin = hw.rtcio_pin]_vars

\* rtc_set_config has run on a pin whose output driver is on and open-drain
C3_Witness ==
    /\ last = Call("rtc_set_config", <<FALSE, TRUE, 0>>)
    /\ OutputEnabled(hw)
    /\ OpenDrain(hw)
    /\ OwnPad(hw, "mux_sel") = 1

\* C4: errata36 on a pin of the table writes pull_up and pull_down to the
\* pin's RTC-domain rue and rde fields and changes nothing else; on any other
\* pin it changes no register.
C4_Errata36 ==
    [][last'.op = "errata36" =>
          IF self \in ResistorPins
          THEN hw' = [hw EXCEPT
                        !.rtcio_pad[RtcOf(self).reg] =
                            SetF(SetF(@, RtcOf(self).prefix, "rue", BitOf(last'.args[1])),
                                 RtcOf(self).prefix, "rde", BitOf(last'.args[2]))]
          ELSE hw' = hw]_vars

\* errata36(pull_up = true, pull_down = false) has run on pin 25, which is
\* routed to the IO mux, with its hold bit set
C4_Witness ==
    /\ last = Call("errata36", <<TRUE, FALSE>>)
    /\ self = 25
    /\ OwnPad(hw, "rue") = 1
    /\ OwnPad(hw, "rde") = 0
    /\ OwnPad(hw, "mux_sel") = 0
    /\ Held(hw)

\* C8: set_analog and rtc_set_config (and every call other than
\* rtcio_pad_hold) change no bit of hold_force; rtcio_pad_hold(enable) sets
\* the pin's hold bit to enable and changes nothing else, no RTC_IO mode field
\* in particular; so once rtcio_pad_hold was called on the pin, its hold bit
\* is what the last such call asked for.
C8_HoldOrthogonal ==
    /\ [][/\ last'.op # "rtcio_pad_hold" => hw'.hold_force = hw.hold_force
          /\ last'.op = "rtcio_pad_hold" =>
                hw' = [hw EXCEPT !.hold_force[RtcOf(self).hold] = BitOf(last'.args[1])]
         ]_vars
    /\ [](hold_req # "none" => (Held(hw) <=> hold_req = "on"))

\* the pin entered analog mode after its hold was released, among pins that
\* are all held
C8_Witness ==
    /\ last.op = "set_analog"
    /\ hold_req = "off"
    /\ ~Held(hw)
    /\ self = 36
    /\ hw.hold_force["sense2"] = 1

\* C9: a set_analog that follows a set_analog on the same pin changes no
\* register.
C9_SetAnalogIdempotent ==
    [][last.op = "set_analog" /\ last'.op = "set_analog" => hw' = hw]_vars

\* set_analog was called twice in succession
C9_Witness ==
    /\ last.op = "set_analog"
    /\ repeated
    /\ self \in ResistorPins

(***************************************************************************)
(* Properties of touch configuration, checked under SpecTouch.             *)
(***************************************************************************)
\* the pin of each touch channel, channel 0 first
TouchChannelPin == <<4, 0, 2, 15, 13, 12, 14, 27, 33, 32>>
ChannelOfSelf == CHOOSE c \in 0..9 : TouchChannelPin[c + 1] = self

\* C6: set_touch on channels 0..7 writes the channel's touch pad register with
\* xpd = 1, fun_ie = 0, mux_sel = 1, rue = 0, rde = 0, tie_opt = 0 and
\* fun_sel = 0; on channels 8 and 9 it writes only xpd = 1 and tie_opt = 0 and
\* leaves the register that holds the pin's mux_sel, rue, rde and fun_ie as it
\* was.
C6_SetTouchVariants ==
    [][last'.op = "set_touch" =>
          LET reg == TouchPadReg(ChannelOfSelf) IN
          IF ChannelOfSelf <= 7
          THEN hw'.rtcio_pad[reg] =
                   (<<"", "xpd">> :> 1) @@ (<<"", "fun_ie">> :> 0)
                   @@ (<<"", "mux_sel">> :> 1) @@ (<<"", "rue">> :> 0)
                   @@ (<<"", "rde">> :> 0) @@ (<<"", "tie_opt">> :> 0)
                   @@ (<<"", "fun_sel">> :> 0)
          ELSE /\ hw'.rtcio_pad[reg] = (<<"", "xpd">> :> 1) @@ (<<"", "tie_opt">> :> 0)
               /\ hw'.rtcio_pad["xtal_32k_pad"] = hw.rtcio_pad["xtal_32k_pad"]]_vars

\* set_touch has run on channel 8 (pin 33) while the pin was routed to the
\* IO mux with its pull-up on, among pins routed to RTC
C6_Witness ==
    /\ last.op = "set_touch"
    /\ self = 33
    /\ hw.rtcio_pad["touch_pad8"][<<"", "xpd">>] = 1
    /\ hw.rtcio_pad["xtal_32k_pad"][<<"x32n_", "mux_sel">>] = 0
    /\ hw.rtcio_pad["xtal_32k_pad"][<<"x32n_", "rue">>] = 1
    /\ hw.rtcio_pad["xtal_32k_pad"][<<"x32p_", "mux_sel">>] = 1

\* C7: after set_touch on a touch pin, the pad_driver bit of the standard GPIO
\* pin register of that pin's own GPIO number is clear.
C7_OwnPinPushPull ==
    last.op = "set_touch" => hw.gpio_pin[self].pad_driver = 0

(***************************************************************************)
(* Properties of the free functions, checked under SpecQuery.              *)
(***************************************************************************)
\* the pins IO_MUX has a register window for
WindowPins == (0..27) \cup (32..39)

\* C1: io_mux_reg(n) returns pin n's own window exactly when n is in 0..27 or
\* 32..39, and panics for every other u8; either way no register changes.
C1_IoMuxReg ==
    /\ [](last.op = "io_mux_reg" =>
            LET n == last.args[1] IN
            IF n \in WindowPins THEN ret = <<"window", n>> ELSE ret = <<"panic", n>>)
    /\ [][last'.op = "io_mux_reg" => hw' = hw]_vars

\* io_mux_reg(33) has returned a window, with every register field set
C1_Witness ==
    /\ last = Call("io_mux_reg", <<33>>)
    /\ ret[1] = "window"
    /\ hw.gpio_pin[33].pad_driver = 1

\* C5: gpio_intr_enable returns int_enable | nmi_enable << 1 on the APP CPU and
\* int_enable << 2 | nmi_enable << 3 on the PRO CPU; the one uses bits {0, 1}
\* only, the other bits {2, 3} only, so for one request the two results share
\* no set bit.
C5_IntrEnableLayout ==
    last.op = "gpio_intr_enable" =>
        LET i == BitOf(last.args[1])
            n == BitOf(last.args[2])
            other == IF cpu = "AppCpu" THEN "ProCpu" ELSE "AppCpu"
        IN  /\ cpu = "AppCpu" => ret = <<"u8", i + 2 * n>> /\ BitsOf(ret[2]) \subseteq {0, 1}
            /\ cpu = "ProCpu" => ret = <<"u8", 4 * i + 8 * n>> /\ BitsOf(ret[2]) \subseteq {2, 3}
            /\ BitsOf(ret[2])
                 \cap BitsOf(gpio_intr_enable(other, last.args[1], last.args[2])) = {}

\* both flags were asked for on the PRO CPU
C5_Witness ==
    /\ last = Call("gpio_intr_enable", <<TRUE, TRUE>>)
    /\ cpu = "ProCpu"
    /\ ret = <<"u8", 12>>

(***************************************************************************)
(* Properties of the interleaved rtc_set_config, checked under SpecIrq.    *)
(***************************************************************************)
Requested == <<BitOf(last.args[1]), BitOf(last.args[2]), last.args[3]>>

\* C10: whenever another context reads the pin's pad register after
\* rtc_set_config(input_enable, mux, func) began, it sees fun_ie, mux_sel and
\* fun_sel all with the values they had before the call or all with the values
\* asked for; and when the call has returned the three fields have the values
\* asked for.
C10_ConfigAtomic ==
    last.op = "rtc_set_config" =>
        /\ seen # NoRead => seen = old \/ seen = Requested
        /\ pc = "idle" => PadTriple(self, hw) = Requested

\* the other context read the register between the read and the write of a
\* call that changes all three fields
C10_Witness ==
    /\ last = Call("rtc_set_config", <<TRUE, TRUE, 1>>)
    /\ pc = "write"
    /\ old = <<0, 0, 0>>
    /\ seen = old

\* C12: interrupt_status_read on Bank0 returns the raw value of the low status
\* register (GPIO 0..31), on Bank1 that of the high status register
\* (GPIO 32..39), and the call changes no register.
C12_StatusRead ==
    [][last'.op = "interrupt_status_read" =>
        /\ last'.args[1] = "Bank0" => ret' = <<"u32", hw.gpio_status["Bank0"]>>
        /\ last'.args[1] = "Bank1" => ret' = <<"u32", hw.gpio_status["Bank1"]>>
        /\ hw' = hw]_vars

\* the high bank was read while its status differs from the low bank's
C12_Witness ==
    /\ last = Call("interrupt_status_read", <<"Bank1">>)
    /\ ret = <<"u32", 1>>
    /\ hw.gpio_status["Bank0"] = 0
    /\ hw.gpio_status["Bank1"] = 1

\* C14: set_threshold(c, v) sets channel c's threshold to v, and neither
\* set_threshold(c, v) nor set_touch(c) changes the threshold of any channel
\* other than c, the channel sharing c's threshold register included.
C14_ThresholdFrame ==
    [][/\ last'.op = "set_threshold" =>
            hw'.sens_thres[TouchOf(self).thres_reg][ChannelOfSelf] = last'.args[1]
       /\ last'.op \in {"set_threshold", "set_touch"} =>
            \A reg \in ThresRegs : \A t \in ThresFields(reg) \ {ChannelOfSelf} :
                hw'.sens_thres[reg][t] = hw.sens_thres[reg][t]]_vars

\* the RTC-side state of the pin of a table row: output enable, open drain,
\* mode and pull fields, hold bit
RtcStateOf(h, row) ==
    [oe |-> row.rtc \in h.rtcio_enable,
     od |-> h.rtcio_pin[row.rtc],
     pad |-> [k \in PinKeys(row) |-> h.rtcio_pad[row.reg][k]],
     hold |-> h.hold_force[row.hold]]

\* the pad register fields of each RTC pin
RtcPinKeys == [p \in RtcPins |-> PinKeys(RtcOf(p))]

RtcTableOneToOne ==
    /\ Cardinality(RtcPins) = 18
    /\ Len(RtcTable) = 18
    /\ RtcChannels = 0..17
    /\ Cardinality(HoldFields) = 18
    /\ Cardinality({<<row.reg, row.prefix>> : row \in RtcRows}) = 18

\* C15: the RTC pin table has 18 pins with pairwise different RTC channel
\* numbers covering exactly 0..17, pairwise different hold bits and pairwise
\* different (register, prefix) groups; and set_analog, rtc_set_config and
\* rtcio_pad_hold on a pin change no output-enable bit, open-drain bit, mode
\* field, pull field or hold bit of any other RTC pin.
C15_PinsDisjoint ==
    /\ []RtcTableOneToOne
    /\ [][last'.op \in {"set_analog", "rtc_set_config", "rtcio_pad_hold"} =>
            \A row \in RtcRows :
                row.pin # self =>
                    /\ row.rtc \in hw'.rtcio_enable <=> row.rtc \in hw.rtcio_enable
                    /\ hw'.rtcio_pin[row.rtc] = hw.rtcio_pin[row.rtc]
                    /\ LET was == hw.rtcio_pad[row.reg]
                           is == hw'.rtcio_pad[row.reg]
                       IN  \A k \in RtcPinKeys[row.pin] : is[k] = was[k]
                    /\ hw'.hold_force[row.hold] = hw.hold_force[row.hold]]_vars

\* set_analog has run on GPIO36 and cleared its output enable and input enable
\* while GPIO37, in the same pad register, has every bit set
C15_Witness ==
    /\ last.op = "set_analog"
    /\ self = 36
    /\ RtcStateOf(hw, RtcOf(36)).oe = FALSE
    /\ RtcStateOf(hw, RtcOf(36)).pad[<<"sense1_", "fun_ie">>] = 0
    /\ RtcStateOf(hw, RtcOf(37)) =
          [oe |-> TRUE, od |-> 1,
           pad |-> (<<"sense2_", "fun_ie">> :> 1) @@ (<<"sense2_", "mux_sel">> :> 1)
                   @@ (<<"sense2_", "fun_sel">> :> 3),
           hold |-> 1]

\* C16: set_touch on channel c sets bit c of the touch work-enable bitmap and
\* clears no bit that was set, so the bitmap afterwards is the bitmap before
\* with bit c added.
C16_WorkenAccumulates ==
    [][last'.op = "set_touch" =>
          /\ ChannelOfSelf \in hw'.touch_pad_worken
          /\ hw.touch_pad_worken \subseteq hw'.touch_pad_worken
          /\ hw'.touch_pad_worken = hw.touch_pad_worken \cup {ChannelOfSelf}]_vars

\* set_touch has run on channel 3 (GPIO15) and all ten channels are enabled
C16_Witness ==
    /\ last.op = "set_touch"
    /\ self = 15
    /\ hw.touch_pad_worken = 0..9

(***************************************************************************)
(* Properties of rtcio_pad_hold under interruption, checked under SpecHold. *)
(***************************************************************************)
\* C13: when rtcio_pad_hold(p, a) was interrupted between its read and its
\* write of hold_force by a handler that ran rtcio_pad_hold(q, b) on another
\* pin q, then once both are complete the hold bit of p is a and the hold bit
\* of q is b.
C13_NoLostHold ==
    (/\ pc = "idle"
     /\ last.op = "rtcio_pad_hold"
     /\ isr.op = "rtcio_pad_hold"
     /\ isr.at = "write") =>
        /\ hw.hold_force[RtcOf(self).hold] = BitOf(last.args[1])
        /\ hw.hold_force[RtcOf(isr.pin).hold] = BitOf(isr.args[1])

(***************************************************************************)
(* Properties of the signal catalog, checked under SpecSignal.             *)
(***************************************************************************)
\* the codes of the entries of a catalog other than the one named
OtherCodes(enum, codes, name) == {codes[j] : j \in {k \in DOMAIN enum : enum[k][1] # name}}

\* C11: every named InputSignal has a code in 0..539 and every named
\* OutputSignal a code in 0..548 (so `code <= maximum` accepts each of them),
\* the maximum is the code of a named signal, MTMS = 539 and MTDO = 548, and
\* no two names of one enum share a code.
C11_SignalCatalog ==
    /\ last.op = "InputSignal" =>
        /\ ret[2] \in 0..539
        /\ last.args[1] = "MTMS" <=> ret[2] = 539
        /\ ret[2] <= INPUT_SIGNAL_MAX
        /\ ret[2] \notin OtherCodes(InputSignal, InputSignalCodes, last.args[1])
    /\ last.op = "OutputSignal" =>
        /\ ret[2] \in 0..548
        /\ last.args[1] = "MTDO" <=> ret[2] = 548
        /\ ret[2] <= OUTPUT_SIGNAL_MAX
        /\ ret[2] \notin OtherCodes(OutputSignal, OutputSignalCodes, last.args[1])

\* the last, implicitly numbered input signal was converted to its code
C11_Witness ==
    /\ last = Call("InputSignal", <<"MTMS">>)
    /\ ret = <<"u16", 539>>

====
